---- MODULE Spec2Model ----
(***************************************************************************)
(* BMI Calculator Pro (src/Main.py): the calculate / classify / persist    *)
(* path of BMICalculatorApp over BMICalculator, BMIRecord and DataManager. *)
(*                                                                         *)
(* Numbers.  A Python float is modelled as an extended decimal fixed-point *)
(* number: [k |-> "fin", v |-> n] stands for n/100, and "inf" (v = 1 or    *)
(* -1) and "nan" are the IEEE specials that float() can produce from the   *)
(* texts "inf" and "nan".  Products and quotients are truncated to 1/100.  *)
(*                                                                         *)
(* Texts.  An entry text is a tuple of one-character strings.              *)
(***************************************************************************)
EXTENDS Integers, Sequences, FiniteSets, TLC

VARIABLES
    history,       \* DataManager.history: the value load_history returned, then appended to
    file,          \* the persisted file bmi_history.json
    storage,       \* the state of the medium that holds the file
    display,       \* the result widgets of the main window
    notification,  \* the message box the running handler showed
    now,           \* the wall clock, in minutes
    call,          \* the handler that ran last: its inputs, locals and outcome
    probe          \* argument and result of a function applied on its own

vars == <<history, file, storage, display, notification, now, call, probe>>

\* ------------------------------------------------------------------ bounds
\* Longest history the model lets calculate_bmi build.
MaxHist == 2
\* Last minute of the wall clock the model follows.
MaxClock == 1
\* Largest finite bmi (in 1/100) handed to get_category on its own.
MaxProbeBmi == 3600

\* ------------------------------------------------------------ float values
Fin(n) == [k |-> "fin", v |-> n]
PosInf == [k |-> "inf", v |-> 1]
NegInf == [k |-> "inf", v |-> -1]
NaN == [k |-> "nan", v |-> 0]

IsFinite(x) == x.k = "fin"
Abs(n) == IF n < 0 THEN -n ELSE n
Sgn(n) == IF n < 0 THEN -1 ELSE IF n > 0 THEN 1 ELSE 0

\* a < b with NaN ordered below every number
FloatLt_nan_least(a, b) ==
    IF a.k = "nan" THEN b.k # "nan"
    ELSE IF b.k = "nan" THEN FALSE
    ELSE IF a.k = "inf" THEN a.v = -1 /\ ~(b.k = "inf" /\ b.v = -1)
    ELSE IF b.k = "inf" THEN b.v = 1
    ELSE a.v < b.v

\* a < b on floats: every comparison with NaN is false
FloatLt(a, b) ==
    IF a.k = "nan" \/ b.k = "nan" THEN FALSE
    ELSE IF a.k = "inf" THEN a.v = -1 /\ ~(b.k = "inf" /\ b.v = -1)
    ELSE IF b.k = "inf" THEN b.v = 1
    ELSE a.v < b.v

\* a * c for a positive finite literal c given in 1/1000000 as hi*1000 + lo
FloatMulConst(a, hi, lo) ==
    IF a.k # "fin" THEN a
    ELSE Fin(Sgn(a.v) * ((Abs(a.v) * hi + (Abs(a.v) * lo) \div 1000) \div 1000))

\* a * b
FloatMul(a, b) ==
    IF a.k = "nan" \/ b.k = "nan" THEN NaN
    ELSE IF a.k = "inf" \/ b.k = "inf"
         THEN IF Sgn(a.v) * Sgn(b.v) = 0 THEN NaN
              ELSE [k |-> "inf", v |-> Sgn(a.v) * Sgn(b.v)]
    ELSE Fin(Sgn(a.v) * Sgn(b.v) * ((Abs(a.v) * Abs(b.v)) \div 100))

\* a / b by IEEE 754 alone: a zero divisor gives an infinity or NaN
FloatDiv_ieee(a, b) ==
    IF a.k = "nan" \/ b.k = "nan" THEN [raised |-> "none", value |-> NaN]
    ELSE IF b.k = "fin" /\ b.v = 0
    THEN [raised |-> "none",
          value |-> IF Sgn(a.v) = 0 THEN NaN ELSE [k |-> "inf", v |-> Sgn(a.v)]]
    ELSE IF a.k = "inf"
         THEN IF b.k = "inf" THEN [raised |-> "none", value |-> NaN]
              ELSE [raised |-> "none", value |-> [k |-> "inf", v |-> a.v * Sgn(b.v)]]
    ELSE IF b.k = "inf" THEN [raised |-> "none", value |-> Fin(0)]
    ELSE [raised |-> "none",
          value |-> Fin(Sgn(a.v) * Sgn(b.v) * ((Abs(a.v) * 100) \div Abs(b.v)))]

\* a / b; Python raises ZeroDivisionError when the divisor is zero
FloatDiv(a, b) ==
    IF b.k = "fin" /\ b.v = 0 THEN [raised |-> "ZeroDivisionError", value |-> NaN]
    ELSE IF a.k = "nan" \/ b.k = "nan" THEN [raised |-> "none", value |-> NaN]
    ELSE IF a.k = "inf"
         THEN IF b.k = "inf" THEN [raised |-> "none", value |-> NaN]
              ELSE [raised |-> "none", value |-> [k |-> "inf", v |-> a.v * Sgn(b.v)]]
    ELSE IF b.k = "inf" THEN [raised |-> "none", value |-> Fin(0)]
    ELSE [raised |-> "none",
          value |-> Fin(Sgn(a.v) * Sgn(b.v) * ((Abs(a.v) * 100) \div Abs(b.v)))]

\* round(x, 1): nearest multiple of 0.1, ties to even; inf and nan unchanged
Round1(x) ==
    IF x.k # "fin" THEN x
    ELSE LET q == Abs(x.v) \div 10
             r == Abs(x.v) % 10
             up == r > 5 \/ (r = 5 /\ q % 2 = 1)
         IN Fin(Sgn(x.v) * (IF up THEN q + 1 ELSE q) * 10)

\* min(100, x) as the builtin computes it: x replaces 100 only when x < 100
Min100(x) == IF FloatLt(x, Fin(10000)) THEN x ELSE Fin(10000)

\* ---------------------------------------------------------------- float()
DigitChars == {"0", "1", "2", "3", "4", "5", "6", "7", "8", "9"}

DigitVal(c) ==
    CASE c = "0" -> 0 [] c = "1" -> 1 [] c = "2" -> 2 [] c = "3" -> 3
      [] c = "4" -> 4 [] c = "5" -> 5 [] c = "6" -> 6 [] c = "7" -> 7
      [] c = "8" -> 8 [] c = "9" -> 9

AllDigits(s) == \A i \in 1..Len(s) : s[i] \in DigitChars

RECURSIVE DigitsVal(_)
DigitsVal(s) ==
    IF s = <<>> THEN 0
    ELSE DigitsVal(SubSeq(s, 1, Len(s) - 1)) * 10 + DigitVal(s[Len(s)])

RECURSIVE Strip(_)
Strip(s) ==
    IF s = <<>> THEN s
    ELSE IF s[1] = " " THEN Strip(Tail(s))
    ELSE IF s[Len(s)] = " " THEN Strip(SubSeq(s, 1, Len(s) - 1))
    ELSE s

\* float(text) for texts made of spaces, a sign, digits, one point and the
\* lower-case words inf, infinity and nan; anything else is a ValueError
ParseFloat(text) ==
    LET s == Strip(text)
        signed == s # <<>> /\ s[1] \in {"+", "-"}
        neg == signed /\ s[1] = "-"
        body == IF signed THEN Tail(s) ELSE s
        dots == {i \in 1..Len(body) : body[i] = "."}
        dot == IF dots = {} THEN Len(body) + 1 ELSE CHOOSE i \in dots : TRUE
        ip == SubSeq(body, 1, dot - 1)
        fp == SubSeq(body, dot + 1, Len(body))
        fp2 == SubSeq(fp \o <<"0", "0">>, 1, 2)
        mag == DigitsVal(ip) * 100 + DigitsVal(fp2)
    IN IF body \in {<<"i", "n", "f">>, <<"i", "n", "f", "i", "n", "i", "t", "y">>}
       THEN [raised |-> "none", value |-> IF neg THEN NegInf ELSE PosInf]
       ELSE IF body = <<"n", "a", "n">>
       THEN [raised |-> "none", value |-> NaN]
       ELSE IF Cardinality(dots) <= 1 /\ AllDigits(ip) /\ AllDigits(fp)
               /\ Len(ip) + Len(fp) >= 1
       THEN [raised |-> "none", value |-> Fin(IF neg THEN -mag ELSE mag)]
       ELSE [raised |-> "ValueError", value |-> NaN]

\* ----------------------------------------------------------- BMICalculator
\* BMICalculator.calculate
calculate(weight, height, weight_unit, height_unit) ==
    LET w == IF weight_unit = "lbs" THEN FloatMulConst(weight, 453, 592) ELSE weight
        h == IF height_unit = "inches" THEN FloatMulConst(height, 2540, 0) ELSE height
        height_m == IF h.k = "fin" THEN Fin(Sgn(h.v) * (Abs(h.v) \div 100)) ELSE h
    IN FloatDiv(w, FloatMul(height_m, height_m))

Rec_SevereUnderweight ==
    <<"Urgent medical attention required",
      "Consult with healthcare provider immediately",
      "Work with a registered dietitian",
      "Regular health monitoring needed">>
Rec_Underweight ==
    <<"Increase caloric intake with nutrient-rich foods",
      "Consider consulting a nutritionist",
      "Add strength training exercises",
      "Monitor your progress regularly",
      "Focus on protein-rich foods">>
Rec_NormalWeight ==
    <<"Maintain a balanced diet",
      "Regular exercise (150 minutes/week)",
      "Stay hydrated",
      "Get adequate sleep (7-9 hours)",
      "Regular health check-ups">>
Rec_Overweight ==
    <<"Monitor portion sizes",
      "Increase physical activity",
      "Reduce processed food intake",
      "Consider keeping a food diary",
      "Aim for gradual weight loss">>
Rec_ObeseI ==
    <<"Consult a healthcare provider",
      "Create a sustainable exercise routine",
      "Focus on whole foods",
      "Set realistic weight loss goals",
      "Consider working with a fitness trainer">>
Rec_ObeseII ==
    <<"Immediate medical consultation required",
      "Supervised weight loss program recommended",
      "Regular health monitoring",
      "Consider professional support",
      "Focus on sustainable lifestyle changes">>

\* get_category with the third comparison written bmi <= 25
get_category_le25(bmi) ==
    IF FloatLt(bmi, Fin(1600)) THEN <<"Severe Underweight", Rec_SevereUnderweight, "#ff0000">>
    ELSE IF FloatLt(bmi, Fin(1850)) THEN <<"Underweight", Rec_Underweight, "#ff9900">>
    ELSE IF FloatLt(bmi, Fin(2501)) THEN <<"Normal Weight", Rec_NormalWeight, "#00cc00">>
    ELSE IF FloatLt(bmi, Fin(3000)) THEN <<"Overweight", Rec_Overweight, "#ff9900">>
    ELSE IF FloatLt(bmi, Fin(3500)) THEN <<"Obese Class I", Rec_ObeseI, "#ff3300">>
    ELSE <<"Obese Class II", Rec_ObeseII, "#ff0000">>

\* BMICalculator.get_category: <<label, recommendations, color>>
get_category(bmi) ==
    IF FloatLt(bmi, Fin(1600)) THEN <<"Severe Underweight", Rec_SevereUnderweight, "#ff0000">>
    ELSE IF FloatLt(bmi, Fin(1850)) THEN <<"Underweight", Rec_Underweight, "#ff9900">>
    ELSE IF FloatLt(bmi, Fin(2500)) THEN <<"Normal Weight", Rec_NormalWeight, "#00cc00">>
    ELSE IF FloatLt(bmi, Fin(3000)) THEN <<"Overweight", Rec_Overweight, "#ff9900">>
    ELSE IF FloatLt(bmi, Fin(3500)) THEN <<"Obese Class I", Rec_ObeseI, "#ff3300">>
    ELSE <<"Obese Class II", Rec_ObeseII, "#ff0000">>

\* ------------------------------------------------------------------ models
\* datetime.now().strftime('%Y-%m-%d %H:%M') of minute t of the clock
strftime(t) == [ymd |-> t \div 1440, hh |-> (t \div 60) % 24, mm |-> t % 60]

\* BMIRecord(weight, height, bmi, category) with __post_init__'s default date
BMIRecord(weight, height, bmi, category, t) ==
    [weight |-> weight, height |-> height, bmi |-> bmi, category |-> category,
     date |-> strftime(t)]

\* to_dict with the weight left unrounded
to_dict_raw_weight(record) ==
    [date |-> record.date,
     weight |-> record.weight,
     height |-> Round1(record.height),
     bmi |-> Round1(record.bmi),
     category |-> record.category]

\* BMIRecord.to_dict
to_dict(record) ==
    [date |-> record.date,
     weight |-> Round1(record.weight),
     height |-> Round1(record.height),
     bmi |-> Round1(record.bmi),
     category |-> record.category]

\* ------------------------------------------------------------------- json
\* The text json.dump writes for a float: repr of a finite value, or one of
\* the words NaN, Infinity, -Infinity
float_repr(x) ==
    IF x.k = "nan" THEN [tok |-> "NaN", neg |-> FALSE, int |-> 0, frac |-> 0]
    ELSE IF x.k = "inf"
    THEN [tok |-> "Infinity", neg |-> x.v < 0, int |-> 0, frac |-> 0]
    ELSE [tok |-> "number", neg |-> x.v < 0,
          int |-> Abs(x.v) \div 100, frac |-> Abs(x.v) % 100]

\* The float json.load reads from such a text
parse_float(lit) ==
    IF lit.tok = "NaN" THEN NaN
    ELSE IF lit.tok = "Infinity" THEN (IF lit.neg THEN NegInf ELSE PosInf)
    ELSE Fin((IF lit.neg THEN -1 ELSE 1) * (lit.int * 100 + lit.frac))

json_dump_dict(d) ==
    [date |-> d.date, weight |-> float_repr(d.weight), height |-> float_repr(d.height),
     bmi |-> float_repr(d.bmi), category |-> d.category]

json_load_dict(o) ==
    [date |-> o.date, weight |-> parse_float(o.weight), height |-> parse_float(o.height),
     bmi |-> parse_float(o.bmi), category |-> o.category]

\* json.dump(obj, f): the text written for a Python list of dicts or a dict
json_dump(obj) ==
    IF obj.type = "list"
    THEN [kind |-> "array", items |-> [i \in 1..Len(obj.items) |-> json_dump_dict(obj.items[i])]]
    ELSE [kind |-> "object", items |-> <<>>]

\* json.load(f): a JSON array gives a list, a JSON object a dict, and text
\* that is no JSON raises JSONDecodeError
json_load(text) ==
    IF text.kind = "array"
    THEN [raised |-> "none",
          value |-> [type |-> "list",
                     items |-> [i \in 1..Len(text.items) |-> json_load_dict(text.items[i])]]]
    ELSE IF text.kind = "object"
    THEN [raised |-> "none", value |-> [type |-> "dict", items |-> <<>>]]
    ELSE [raised |-> "JSONDecodeError", value |-> [type |-> "none", items |-> <<>>]]

\* ------------------------------------------------------------ DataManager
EmptyList == [type |-> "list", items |-> <<>>]
NoFile == [exists |-> FALSE, kind |-> "none", items |-> <<>>]
FileWith(text) == [exists |-> TRUE, kind |-> text.kind, items |-> text.items]
\* what open(filename, 'w') leaves when the write after it fails
TruncatedFile == [exists |-> TRUE, kind |-> "garbage", items |-> <<>>]

\* load_history without the try/except around json.load
load_history_no_except(f) ==
    IF f.exists THEN json_load(f).value ELSE EmptyList

\* DataManager.load_history
load_history(f) ==
    IF f.exists
    THEN LET r == json_load(f) IN IF r.raised = "none" THEN r.value ELSE EmptyList
    ELSE EmptyList

\* save_record with the new record inserted at the front
save_record_front(hist, f, st, record) ==
    IF hist.type # "list"
    THEN [history |-> hist, file |-> f, raised |-> "AttributeError"]
    ELSE LET h2 == [hist EXCEPT !.items = <<to_dict(record)>> \o hist.items]
         IN [history |-> h2, file |-> FileWith(json_dump(h2)), raised |-> "none"]

\* DataManager.save_record: the history, the file and the exception it ends with
save_record(hist, f, st, record) ==
    IF hist.type # "list"
    THEN [history |-> hist, file |-> f, raised |-> "AttributeError"]
    ELSE LET h2 == [hist EXCEPT !.items = Append(hist.items, to_dict(record))]
         IN IF st = "readonly"
            THEN [history |-> h2, file |-> f, raised |-> "PermissionError"]
            ELSE IF st = "full"
            THEN [history |-> h2, file |-> TruncatedFile, raised |-> "OSError"]
            ELSE [history |-> h2, file |-> FileWith(json_dump(h2)), raised |-> "none"]

\* clear_history with os.remove called whether or not the file exists
clear_history_no_exists_check(hist, f, st) ==
    IF f.exists
    THEN [history |-> EmptyList, file |-> NoFile, raised |-> "none"]
    ELSE [history |-> EmptyList, file |-> f, raised |-> "FileNotFoundError"]

\* DataManager.clear_history
clear_history(hist, f, st) ==
    IF f.exists
    THEN IF st = "readonly"
         THEN [history |-> EmptyList, file |-> f, raised |-> "PermissionError"]
         ELSE [history |-> EmptyList, file |-> NoFile, raised |-> "none"]
    ELSE [history |-> EmptyList, file |-> f, raised |-> "none"]

\* -------------------------------------------------------------- inputs
\* Texts typed into the weight entry
WeightTexts == {<<"a", "b", "c">>, <<"7", "2", ".", "1", "6">>, <<"i", "n", "f">>}
\* Texts typed into the height entry
HeightTexts == {<<>>, <<"0">>, <<"1", "7", "0">>}
WeightUnits == {"kg", "lbs"}
HeightUnits == {"cm", "inches"}

\* float(text) with the empty text read as 0.0
float_of_empty_is_zero ==
    [text \in WeightTexts \cup HeightTexts |->
        IF Strip(text) = <<>> THEN [raised |-> "none", value |-> Fin(0)]
        ELSE ParseFloat(text)]

\* float(text), tabulated over the texts the entries can hold
float_of == [text \in WeightTexts \cup HeightTexts |-> ParseFloat(text)]

\* A record an earlier session saved: 80 kg, 180 cm, the minute before start
EarlierDict == to_dict(BMIRecord(Fin(8000), Fin(18000), Fin(2469), "Normal Weight", -1))

\* What bmi_history.json may hold when the program starts: nothing, text
\* that is no JSON, a JSON object, and arrays an earlier session wrote
StartFiles ==
    {NoFile,
     [exists |-> TRUE, kind |-> "garbage", items |-> <<>>],
     [exists |-> TRUE, kind |-> "object", items |-> <<>>],
     FileWith(json_dump(EmptyList)),
     FileWith(json_dump([type |-> "list", items |-> <<EarlierDict>>]))}

\* ------------------------------------------------------------------ state
BlankDisplay ==
    [bmi_label |-> [shown |-> FALSE, value |-> Fin(0)],
     category_label |-> "",
     progress |-> Fin(0),
     recommendations |-> <<>>]

NoCall ==
    [op |-> "init", prev |-> "init", raised |-> "none", confirmed |-> FALSE,
     wtext |-> <<>>, htext |-> <<>>, weight_unit |-> "kg", height_unit |-> "cm",
     parsed |-> FALSE, weight |-> NaN, height |-> NaN,
     recorded |-> FALSE, bmi |-> NaN, category |-> "", date |-> strftime(0)]

NoProbe ==
    [fn |-> "none", bmi |-> NaN, weight |-> NaN, height |-> NaN,
     weight_unit |-> "kg", height_unit |-> "cm",
     done |-> FALSE, raised |-> "none", value |-> NaN, label |-> ""]

\* BMICalculatorApp.__init__: the DataManager loads the file, the result
\* widgets are empty
Init ==
    /\ file \in StartFiles
    /\ history = load_history(file)
    /\ storage = "ok"
    /\ display = BlankDisplay
    /\ notification = "none"
    /\ now = 0
    /\ call = NoCall
    /\ probe = NoProbe

\* The program is closed and started again on the same file
Restart ==
    /\ history' = load_history(file)
    /\ display' = BlankDisplay
    /\ notification' = "none"
    /\ call' = [NoCall EXCEPT !.op = "restart", !.prev = call.op]
    /\ UNCHANGED <<file, storage, now, probe>>

\* The widgets calculate_bmi sets once save_record has returned
ResultDisplay(bmi, cat) ==
    [bmi_label |-> [shown |-> TRUE, value |-> Round1(bmi)],
     category_label |-> cat[1],
     progress |-> Min100(FloatMul(FloatDiv(bmi, Fin(5000)).value, Fin(10000))),
     recommendations |-> [i \in 1..Len(cat[2]) |-> [text |-> cat[2][i], foreground |-> cat[3]]]]

\* BMICalculatorApp.calculate_bmi, the Calculate button's handler, with the
\* entry texts and the unit selections given; the clock is read when the
\* record is created
calculate_bmi(wtext, htext, weight_unit, height_unit) ==
    LET pw == float_of[wtext]
        ph == float_of[htext]
        c == calculate(pw.value, ph.value, weight_unit, height_unit)
        cat == get_category(c.value)
        entered == [NoCall EXCEPT !.op = "calculate_bmi", !.prev = call.op,
                                  !.wtext = wtext, !.htext = htext]
        \* the unit selections are read once both texts are parsed
        parsed == [entered EXCEPT !.parsed = TRUE,
                                  !.weight = pw.value, !.height = ph.value,
                                  !.weight_unit = weight_unit, !.height_unit = height_unit]
    IN /\ history.type = "list" => Len(history.items) < MaxHist
       /\ IF pw.raised # "none" \/ ph.raised # "none"
          THEN \* except ValueError: messagebox.showerror
               /\ notification' = "error"
               /\ call' = [entered EXCEPT !.raised = "ValueError"]
               /\ UNCHANGED <<history, file, display, now>>
          ELSE IF c.raised # "none"
          THEN \* not a ValueError: leaves the handler
               /\ notification' = "none"
               /\ call' = [parsed EXCEPT !.raised = c.raised]
               /\ UNCHANGED <<history, file, display, now>>
          ELSE \E t \in now..MaxClock :
               LET record == BMIRecord(pw.value, ph.value, c.value, cat[1], t)
                   sv == save_record(history, file, storage, record)
               IN /\ now' = t
                  /\ history' = sv.history
                  /\ file' = sv.file
                  /\ notification' = "none"
                  /\ display' = IF sv.raised = "none" THEN ResultDisplay(c.value, cat)
                                ELSE display
                  /\ call' = [parsed EXCEPT !.raised = sv.raised,
                                             !.recorded = TRUE, !.bmi = c.value,
                                             !.category = cat[1], !.date = record.date]
       /\ UNCHANGED <<storage, probe>>

\* BMICalculatorApp.clear_history, the Clear History menu command, with the
\* user's answer to the question it asks
App_clear_history(answer) ==
    LET r == clear_history(history, file, storage)
    IN /\ IF answer
          THEN /\ history' = r.history
               /\ file' = r.file
               /\ notification' = IF r.raised = "none" THEN "info" ELSE "none"
               /\ call' = [NoCall EXCEPT !.op = "clear_history", !.prev = call.op,
                                         !.confirmed = TRUE, !.raised = r.raised]
          ELSE /\ notification' = "none"
               /\ call' = [NoCall EXCEPT !.op = "declined", !.prev = call.op]
               /\ UNCHANGED <<history, file>>
       /\ UNCHANGED <<storage, display, now, probe>>

Next ==
    \/ \E wtext \in WeightTexts, htext \in HeightTexts,
          weight_unit \in WeightUnits, height_unit \in HeightUnits :
          calculate_bmi(wtext, htext, weight_unit, height_unit)
    \/ \E answer \in BOOLEAN : App_clear_history(answer)
    \/ Restart

\* The program on a medium that takes every write
Spec == Init /\ [][Next]_vars

\* The medium becomes read-only, full, or usable again
SetStorage(st) ==
    /\ storage' = st
    /\ storage # st
    /\ UNCHANGED <<history, file, display, notification, now, call, probe>>

\* The handlers with the units left at kg and cm
NextFault ==
    \/ \E wtext \in WeightTexts, htext \in HeightTexts :
          calculate_bmi(wtext, htext, "kg", "cm")
    \/ \E answer \in BOOLEAN : App_clear_history(answer)
    \/ Restart
    \/ \E st \in {"ok", "readonly", "full"} : SetStorage(st)

\* The program on a medium whose writes may fail
SpecFault == Init /\ [][NextFault]_vars

\* ------------------------------------------------- functions on their own
\* The bmi values get_category is applied to
ProbeBmis == {Fin(n) : n \in -50..MaxProbeBmi} \cup {PosInf, NegInf, NaN}
\* The numeric weights and heights calculate is applied to
ProbeWeights == {Fin(0), Fin(7216), Fin(15400), Fin(-500), PosInf, NegInf, NaN}
ProbeHeights == {Fin(0), Fin(17000), Fin(6800), Fin(-17000), PosInf, NaN}

InitPure ==
    /\ file = NoFile
    /\ history = load_history(file)
    /\ storage = "ok"
    /\ display = BlankDisplay
    /\ notification = "none"
    /\ now = 0
    /\ call = NoCall
    /\ \/ \E b \in ProbeBmis : probe = [NoProbe EXCEPT !.fn = "get_category", !.bmi = b]
       \/ \E w \in ProbeWeights, h \in ProbeHeights,
             wu \in WeightUnits, hu \in HeightUnits :
             probe = [NoProbe EXCEPT !.fn = "calculate", !.weight = w, !.height = h,
                                     !.weight_unit = wu, !.height_unit = hu]

\* get_category applied to the drawn bmi
Apply_get_category ==
    /\ probe.fn = "get_category" /\ ~probe.done
    /\ probe' = [probe EXCEPT !.done = TRUE, !.label = get_category(probe.bmi)[1]]
    /\ UNCHANGED <<history, file, storage, display, notification, now, call>>

\* calculate applied to the drawn weight, height and units
Apply_calculate ==
    /\ probe.fn = "calculate" /\ ~probe.done
    /\ LET c == calculate(probe.weight, probe.height, probe.weight_unit, probe.height_unit)
       IN probe' = [probe EXCEPT !.done = TRUE, !.raised = c.raised, !.value = c.value]
    /\ UNCHANGED <<history, file, storage, display, notification, now, call>>

NextPure == Apply_get_category \/ Apply_calculate

\* BMICalculator's two static methods applied to arguments drawn at the start
SpecPure == InitPure /\ [][NextPure]_vars

\* ------------------------------------------------------------- properties
Labels ==
    {"Severe Underweight", "Underweight", "Normal Weight", "Overweight",
     "Obese Class I", "Obese Class II"}

\* The entry texts that are not numbers
NotNumbers == {<<"a", "b", "c">>, <<>>}

Saved == call.op = "calculate_bmi" /\ call.recorded /\ call.raised = "none"
SavedNext == call'.op = "calculate_bmi" /\ call'.recorded /\ call'.raised = "none"

\* C1: after every save_record call and every clear_history call, however
\* the call ends and whatever the file held before, the in-memory history
\* equals what load_history would read from the file.
C1_InSyncAfterSaveAndClear ==
    ((call.op = "calculate_bmi" /\ call.recorded) \/ call.op = "clear_history")
        => history = load_history(file)

\* C2: when calculate_bmi runs with a weight or height text that is not a
\* number, the error box is shown, no record is created, and the history,
\* the file and the displayed result stay as they were.
C2_BadTextRejected ==
    [][(/\ call'.op = "calculate_bmi"
        /\ (call'.wtext \in NotNumbers \/ call'.htext \in NotNumbers))
       => (/\ notification' = "error"
           /\ ~call'.recorded
           /\ history' = history
           /\ file' = file
           /\ display' = display)]_vars

C2_Witness ==
    /\ call.op = "calculate_bmi"
    /\ call.wtext \notin NotNumbers /\ call.htext \in NotNumbers
    /\ notification = "error"
    /\ history.type = "list" /\ Len(history.items) > 0
    /\ display.bmi_label.shown

\* C3: after save_record(r) on a history, a fresh DataManager on the same
\* file loads a history whose last element is r with weight, height and bmi
\* rounded to 1 decimal and date and category unchanged.
C3_SavedRecordReadBack ==
    Saved =>
        LET fresh == load_history(file)
        IN /\ fresh.type = "list"
           /\ Len(fresh.items) > 0
           /\ fresh.items[Len(fresh.items)] =
                 [date |-> call.date,
                  weight |-> Round1(call.weight),
                  height |-> Round1(call.height),
                  bmi |-> Round1(call.bmi),
                  category |-> call.category]

C3_Witness ==
    /\ Saved
    /\ Len(history.items) = 2
    /\ Round1(call.weight) # call.weight
    /\ Round1(call.bmi) # call.bmi

\* C4: get_category puts every finite bmi in exactly one band, closed below
\* and open above: < 16, [16, 18.5), [18.5, 25), [25, 30), [30, 35), >= 35.
C4_Bands ==
    (probe.fn = "get_category" /\ probe.done /\ IsFinite(probe.bmi)) =>
        LET v == probe.bmi.v
        IN /\ probe.label \in Labels
           /\ (probe.label = "Severe Underweight") <=> (v < 1600)
           /\ (probe.label = "Underweight") <=> (1600 <= v /\ v < 1850)
           /\ (probe.label = "Normal Weight") <=> (1850 <= v /\ v < 2500)
           /\ (probe.label = "Overweight") <=> (2500 <= v /\ v < 3000)
           /\ (probe.label = "Obese Class I") <=> (3000 <= v /\ v < 3500)
           /\ (probe.label = "Obese Class II") <=> (3500 <= v)

C4_Witness ==
    /\ probe.fn = "get_category" /\ probe.done
    /\ probe.bmi = Fin(2500)
    /\ probe.label = "Overweight"

\* C5 as stated: get_category puts every negative and every non-finite bmi
\* (+infinity, -infinity, NaN) in the lowest band, Severe Underweight.
C5_NonFiniteLowest ==
    (/\ probe.fn = "get_category" /\ probe.done
     /\ (~IsFinite(probe.bmi) \/ probe.bmi.v < 0))
        => probe.label = "Severe Underweight"

\* C5 amended: get_category returns a band for every bmi; every negative
\* bmi and -infinity fall in Severe Underweight, +infinity and NaN in
\* Obese Class II.
C5_TotalWithNonFinite ==
    (probe.fn = "get_category" /\ probe.done) =>
        /\ probe.label \in Labels
        /\ ((IsFinite(probe.bmi) /\ probe.bmi.v < 0) \/ probe.bmi = NegInf)
              => probe.label = "Severe Underweight"
        /\ (probe.bmi = PosInf \/ probe.bmi = NaN) => probe.label = "Obese Class II"

C5_Witness ==
    /\ probe.fn = "get_category" /\ probe.done
    /\ probe.bmi = NaN
    /\ probe.label = "Obese Class II"

Loaded == call.op \in {"init", "restart"}

\* C6 as stated: load_history returns the empty sequence whenever the file
\* is missing or holds anything but the JSON array the store writes.
C6_EmptyUnlessArray ==
    (Loaded /\ (~file.exists \/ file.kind # "array")) => history = EmptyList

\* C6 amended: load_history returns the empty sequence, raising nothing,
\* whenever the file is missing or its text is no JSON; text that is JSON
\* but no array is returned as parsed, not as the empty sequence.
C6_EmptyWhenMissingOrNoJson ==
    Loaded =>
        /\ (~file.exists \/ file.kind = "garbage") => history = EmptyList
        /\ (file.exists /\ file.kind = "object") => history.type = "dict"
        /\ (file.exists /\ file.kind = "array") =>
              (history.type = "list" /\ Len(history.items) = Len(file.items))

C6_Witness ==
    /\ call.op = "restart"
    /\ file.exists /\ file.kind = "garbage"
    /\ history = EmptyList

\* C7 as stated: calculate raises nothing for numeric weight and height, so
\* calculate_bmi with numeric texts, height "0" included, creates the record
\* and runs on to save_record.
C7_NumericInputsRunThrough ==
    (call.op = "calculate_bmi" /\ call.parsed) => (call.recorded /\ call.raised # "ZeroDivisionError")

\* C7 amended: calculate raises ZeroDivisionError when the height is 0 and
\* nothing otherwise; calculate_bmi with height text "0" stops there: no
\* record is created, history, file and display stay as they were, and no
\* error box is shown.
C7_ZeroHeightStops ==
    [][(call'.op = "calculate_bmi" /\ call'.parsed)
       => (/\ (call'.raised = "ZeroDivisionError") <=> (call'.height = Fin(0))
           /\ call'.recorded <=> (call'.height # Fin(0))
           /\ (call'.htext = <<"0">>)
                 => (/\ ~call'.recorded
                     /\ notification' = "none"
                     /\ history' = history
                     /\ file' = file
                     /\ display' = display))]_vars

C7_Witness ==
    /\ call.op = "calculate_bmi" /\ call.parsed
    /\ call.htext = <<"0">>
    /\ call.raised = "ZeroDivisionError"
    /\ history.type = "list" /\ Len(history.items) > 0
    /\ display.bmi_label.shown

\* C8: after clear_history, and again after a second call right after it,
\* the history is empty and the file does not exist, and neither call raises.
C8_ClearIdempotent ==
    (call.op = "clear_history") =>
        (history = EmptyList /\ ~file.exists /\ call.raised = "none")

C8_Witness ==
    /\ call.op = "clear_history"
    /\ call.prev = "clear_history"
    /\ history = EmptyList
    /\ ~file.exists

\* C9: with no clear_history in between, every successful save_record makes
\* the history one longer, leaves the earlier records where they were, and
\* the file holds the same sequence in the same order; loading it again
\* gives that sequence back.
C9_NoRecordLostOrReordered ==
    [][/\ SavedNext =>
            /\ history.type = "list" /\ history'.type = "list"
            /\ Len(history'.items) = Len(history.items) + 1
            /\ SubSeq(history'.items, 1, Len(history.items)) = history.items
            /\ file'.exists /\ file'.kind = "array"
            /\ json_load(file').value = history'
       /\ (call'.op = "restart" /\ Saved) => history' = history]_vars

C9_Witness ==
    /\ Saved
    /\ Len(history.items) = 2
    /\ history.items[1] = EarlierDict
    /\ load_history(file) = history

\* C10: the category stored in a record calculate_bmi adds is the band
\* get_category gives for the record's stored (rounded) bmi.
C10_StoredCategoryMatchesStoredBmi ==
    Saved =>
        LET r == history.items[Len(history.items)]
        IN r.category = get_category(r.bmi)[1]

====
